---- MODULE Spec2Model ----
(***************************************************************************)
(* EncryptedDatabase (src/db.py): a table store kept in one Python dict    *)
(* (self.database) and written whole to one encrypted file after every     *)
(* mutating call.                                                          *)
(*                                                                         *)
(* Python objects are modelled as follows.                                 *)
(*   - a row is a dict object on the heap: heap maps a reference (a        *)
(*     positive integer) to the dict's contents, a function from column    *)
(*     names to values.  self.database[t] is a list of references, so the  *)
(*     same dict object may sit in several places (insert stores the       *)
(*     caller's object, it does not copy it).                              *)
(*   - self.database is a function from its keys to entries; the entry of  *)
(*     "_meta" is the registry {"tables": {...}}, the entry of a table is  *)
(*     its row list.  Both kinds of entry have the same record shape.      *)
(*   - the registry dict keeps insertion order: it is a sequence of        *)
(*     [name, columns] records.                                            *)
(*   - the JSON document has the same shape with every row written out   *)
(*     by value (no references).  The file holds the Fernet token of the   *)
(*     document's text: the text sealed under the key that encrypted it,   *)
(*     which only that key opens.                                          *)
(***************************************************************************)
EXTENDS Integers, Sequences, FiniteSets, TLC

\* Bound of the model: the total number of rows held by all tables.
MaxRows == 2

\* Column names and cell values the callers use.
Keys == {"a", "b"}
Values == {1, 2}
\* The tables the row operations are called on ("_meta" is the key of the
\* registry, and define_table is called with it too).
RowTables == {"t", "u"}
\* The order in which json.loads meets the keys of the document.
KeyOrder == <<"_meta", "t", "u">>
\* A Python int given as an element of `columns`.
IntItem == "int:1"
\* The keys the stores are constructed with.
EncryptionKeys == {"k1", "k2"}

\* The `columns` arguments: [is_list, items].
ColumnArgs ==
    { [is_list |-> TRUE, items |-> <<>>],
      [is_list |-> TRUE, items |-> <<"b", "a">>],
      [is_list |-> TRUE, items |-> <<"a", "a">>],
      [is_list |-> TRUE, items |-> <<"a", IntItem>>],
      [is_list |-> FALSE, items |-> <<"a">>] }

\* The define_table calls: "t" with every `columns`, the other names with
\* a one-column list.
DefineArgs ==
    ({"t"} \X ColumnArgs)
    \cup ({"u", "_meta"} \X {[is_list |-> TRUE, items |-> <<"a">>]})

\* Every dict over the column names: the rows the callers build.
Dicts == UNION { [D -> Values] : D \in SUBSET Keys }
\* The `updates` the callers give: any columns, set to the value 2.
Updates == UNION { [D -> {2}] : D \in SUBSET Keys }

\* `filters`: a dict in iteration order, as a sequence of <<key, value>>:
\* none, one key, and two keys in either order.
Filters ==
    {<<>>}
    \cup { <<p>> : p \in Keys \X Values }
    \cup { <<<<"a", 1>>, <<"b", 1>>>>, <<<<"b", 1>>, <<"a", 1>>>> }

Range(s) == { s[i] : i \in 1..Len(s) }

\* ------------------------------------------------------------------------
\* Entries of self.database and of the JSON document.

MetaEntry(tables) == [kind |-> "meta", tables |-> tables, rows |-> <<>>]
RowsEntry(rows) == [kind |-> "rows", tables |-> <<>>, rows |-> rows]

\* d[k] = v on a dict.
dict_set(d, k, v) == [x \in DOMAIN d \cup {k} |-> IF x = k THEN v ELSE d[x]]

\* name in tables / tables[name]["columns"] on the registry.
has_table(tables, name) == \E i \in 1..Len(tables) : tables[i].name = name
columns_of(tables, name) ==
    tables[CHOOSE i \in 1..Len(tables) : tables[i].name = name].columns

\* isinstance(col, str)
isinstance_str(col) == col # IntItem

\* ------------------------------------------------------------------------
\* Persistence: json.dumps / json.loads and the file.

\* A row list written out: every reference replaced by the dict's contents.
json_entry(heap, e) ==
    [kind |-> e.kind, tables |-> e.tables,
     rows |-> [i \in 1..Len(e.rows) |-> heap[e.rows[i]]]]

json_dumps(database, heap) ==
    [k \in DOMAIN database |-> json_entry(heap, database[k])]

\* json.loads builds a new dict object for every row of the document: the
\* rows of the keys before KeyOrder[n] take the references 1..offset.
RECURSIVE offset(_, _)
offset(doc, n) ==
    IF n = 1 THEN 0
    ELSE offset(doc, n - 1)
         + (IF KeyOrder[n - 1] \in DOMAIN doc
            THEN Len(doc[KeyOrder[n - 1]].rows) ELSE 0)

key_index(k) == CHOOSE n \in 1..Len(KeyOrder) : KeyOrder[n] = k

json_loads_database(doc) ==
    [k \in DOMAIN doc |->
        [kind |-> doc[k].kind, tables |-> doc[k].tables,
         rows |-> [i \in 1..Len(doc[k].rows) |-> offset(doc, key_index(k)) + i]]]

json_loads_heap(doc) ==
    [r \in 1..offset(doc, Len(KeyOrder) + 1) |->
        LET k == CHOOSE k \in DOMAIN doc :
                    /\ r > offset(doc, key_index(k))
                    /\ r <= offset(doc, key_index(k)) + Len(doc[k].rows)
        IN doc[k].rows[r - offset(doc, key_index(k))]]

\* Bytes: the text json.dumps(...).encode() gives, and bytes that are no
\* JSON text.
JsonText(doc) == [json |-> TRUE, doc |-> doc]
NotJson == [json |-> FALSE, doc |-> <<>>]

\* Fernet(key).encrypt(text): a token, authenticated under the key.
\* Bytes that are no token of any key (a damaged or foreign file).
encrypt(key, text) == [token |-> TRUE, key |-> key, text |-> text]
NoToken == [token |-> FALSE, key |-> "", text |-> NotJson]

\* Fernet(key).decrypt(data) raises InvalidToken unless data is a token
\* made under the same key.
decrypt_raises(key, data) == ~data.token \/ data.key # key
decrypt(key, data) == data.text

\* json.loads(text) raises JSONDecodeError on bytes that are no JSON text.
json_loads_raises(text) == ~text.json

NoFile == [exists |-> FALSE, data |-> NoToken]

\* _load_or_initialize_db as it would be if it fell back to a new snapshot
\* when the file cannot be read.
load_or_empty(file, key) ==
    IF file.exists /\ ~decrypt_raises(key, file.data)
                   /\ ~json_loads_raises(decrypt(key, file.data))
    THEN [outcome |-> "ok",
          database |-> json_loads_database(decrypt(key, file.data).doc),
          heap |-> json_loads_heap(decrypt(key, file.data).doc)]
    ELSE [outcome |-> "ok",
          database |-> [k \in {"_meta"} |-> MetaEntry(<<>>)], heap |-> <<>>]

\* _load_or_initialize_db with the cipher of `key`: the dict (and its row
\* objects) built from the file, the empty registry when there is no file,
\* or the exception of decrypt or json.loads.
_load_or_initialize_db(file, key) ==
    IF file.exists
    THEN IF decrypt_raises(key, file.data)
         THEN [outcome |-> "InvalidToken", database |-> <<>>, heap |-> <<>>]
         ELSE IF json_loads_raises(decrypt(key, file.data))
         THEN [outcome |-> "JSONDecodeError", database |-> <<>>, heap |-> <<>>]
         ELSE [outcome |-> "ok",
               database |-> json_loads_database(decrypt(key, file.data).doc),
               heap |-> json_loads_heap(decrypt(key, file.data).doc)]
    ELSE [outcome |-> "ok",
          database |-> [k \in {"_meta"} |-> MetaEntry(<<>>)], heap |-> <<>>]

\* _save_db as it would be inside try/except: a failed write is dropped.
save_or_ignore(W) ==
    LET encrypted_data ==
            encrypt(W.encryption_key, JsonText(json_dumps(W.database, W.heap)))
    IN CASE W.disk = "ok" ->
                [W EXCEPT !.file = [exists |-> TRUE, data |-> encrypted_data],
                          !.saves = @ + 1]
         [] W.disk = "open_fails" -> W
         [] W.disk = "write_fails" ->
                [W EXCEPT !.file = [exists |-> TRUE, data |-> NoToken]]

\* What the file system does with the next open(db_file, 'wb') and write.
DiskFaults == {"open_fails", "write_fails"}

\* _save_db: one full write of the encrypted, serialized snapshot.  W is
\* the state of a call in progress.  open(..., 'wb') may raise and leave
\* the file as it is; file.write may raise after open has emptied the file.
\* The exception leaves the call (W.raised).
_save_db(W) ==
    LET encrypted_data ==
            encrypt(W.encryption_key, JsonText(json_dumps(W.database, W.heap)))
    IN CASE W.disk = "ok" ->
                [W EXCEPT !.file = [exists |-> TRUE, data |-> encrypted_data],
                          !.saves = @ + 1]
         [] W.disk = "open_fails" -> [W EXCEPT !.raised = "OSError"]
         [] W.disk = "write_fails" ->
                [W EXCEPT !.file = [exists |-> TRUE, data |-> NoToken],
                          !.raised = "OSError"]

\* ------------------------------------------------------------------------
\* The public operations, as functions from the store's state
\* S = [database, heap, file] (and the arguments) to the state after the
\* call with its outcome ("ok" or the error raised) and its return value.
\* S carries the store's key and the state of the disk during the call.

Begin(S) ==
    [database |-> S.database, heap |-> S.heap, file |-> S.file,
     encryption_key |-> S.encryption_key, disk |-> S.disk,
     saves |-> 0, raised |-> "none"]

\* The return statement after the save: an exception of the save leaves the
\* call in its place.
Returns(W, count, rows) ==
    IF W.raised # "none"
    THEN [database |-> W.database, heap |-> W.heap, file |-> W.file,
          saves |-> W.saves, outcome |-> W.raised, count |-> 0, rows |-> <<>>]
    ELSE [database |-> W.database, heap |-> W.heap, file |-> W.file,
          saves |-> W.saves, outcome |-> "ok", count |-> count, rows |-> rows]

Raise(W, error) ==
    [database |-> W.database, heap |-> W.heap, file |-> W.file, saves |-> W.saves,
     outcome |-> error, count |-> 0, rows |-> <<>>]

\* self.database["_meta"]["tables"] raises TypeError when the "_meta" entry
\* is a list.
meta_is_registry(database) == database["_meta"].kind = "meta"

define_table(S, table_name, columns) ==
    LET W == Begin(S) IN
    IF ~meta_is_registry(S.database) THEN Raise(W, "TypeError")
    ELSE IF has_table(S.database["_meta"].tables, table_name)
    THEN Raise(W, "TableExists")
    ELSE IF ~columns.is_list
            \/ ~(\A i \in 1..Len(columns.items) : isinstance_str(columns.items[i]))
    THEN Raise(W, "InvalidSchema")
    ELSE LET tables == Append(S.database["_meta"].tables,
                              [name |-> table_name, columns |-> columns.items])
             db1 == [S.database EXCEPT !["_meta"] = MetaEntry(tables)]
             db2 == dict_set(db1, table_name, RowsEntry(<<>>))
         IN Returns(_save_db([W EXCEPT !.database = db2]), 0, <<>>)

\* insert as it would be with a subset test, set(row.keys()) <= set(columns).
insert_subset(S, table_name, row) ==
    LET W == Begin(S) IN
    IF ~meta_is_registry(S.database) THEN Raise(W, "TypeError")
    ELSE IF ~has_table(S.database["_meta"].tables, table_name)
    THEN Raise(W, "TableNotFound")
    ELSE IF ~(DOMAIN S.heap[row]
                \subseteq Range(columns_of(S.database["_meta"].tables, table_name)))
    THEN Raise(W, "SchemaMismatch")
    ELSE LET db1 == [S.database EXCEPT ![table_name] =
                        RowsEntry(Append(@.rows, row))]
         IN Returns(_save_db([W EXCEPT !.database = db1]), 0, <<>>)

\* row is a reference to the caller's dict.
insert(S, table_name, row) ==
    LET W == Begin(S) IN
    IF ~meta_is_registry(S.database) THEN Raise(W, "TypeError")
    ELSE IF ~has_table(S.database["_meta"].tables, table_name)
    THEN Raise(W, "TableNotFound")
    ELSE IF DOMAIN S.heap[row] # Range(columns_of(S.database["_meta"].tables, table_name))
    THEN Raise(W, "SchemaMismatch")
    ELSE LET db1 == [S.database EXCEPT ![table_name] =
                        RowsEntry(Append(@.rows, row))]
         IN Returns(_save_db([W EXCEPT !.database = db1]), 0, <<>>)

\* all(row[k] == v for k, v in filters.items()), from the j-th item on:
\* row[k] raises KeyError, and all() stops at the first unequal item.
RECURSIVE all_index(_, _, _)
all_index(row, filters, j) ==
    IF j > Len(filters) THEN "true"
    ELSE IF filters[j][1] \notin DOMAIN row THEN "KeyError"
    ELSE IF row[filters[j][1]] # filters[j][2] THEN "false"
    ELSE all_index(row, filters, j + 1)

\* all_get as it would be if an empty `filters` selected nothing.
all_get_nonempty(row, filters) ==
    /\ filters # <<>>
    /\ \A j \in 1..Len(filters) :
        /\ filters[j][1] \in DOMAIN row
        /\ row[filters[j][1]] = filters[j][2]

\* all(row.get(k) == v for k, v in filters.items())
all_get(row, filters) ==
    \A j \in 1..Len(filters) :
        /\ filters[j][1] \in DOMAIN row
        /\ row[filters[j][1]] = filters[j][2]

\* The list comprehension of read over rows[i..]: the selected references,
\* or "KeyError" as soon as one row raises.
RECURSIVE read_rows(_, _, _, _)
read_rows(heap, rows, filters, i) ==
    IF i > Len(rows) THEN [error |-> "ok", rows |-> <<>>]
    ELSE LET m == all_index(heap[rows[i]], filters, 1) IN
         IF m = "KeyError" THEN [error |-> "KeyError", rows |-> <<>>]
         ELSE LET rest == read_rows(heap, rows, filters, i + 1) IN
              IF rest.error # "ok" THEN rest
              ELSE IF m = "true"
                   THEN [error |-> "ok", rows |-> <<rows[i]>> \o rest.rows]
                   ELSE rest

\* `return rows` gives the caller self.database[table_name] itself when
\* `filters` is None or empty, and the list the comprehension built otherwise.
returns_table_list(filters) == filters = <<>>

read(S, table_name, filters) ==
    LET W == Begin(S) IN
    IF ~meta_is_registry(S.database) THEN Raise(W, "TypeError")
    ELSE IF ~has_table(S.database["_meta"].tables, table_name)
    THEN Raise(W, "TableNotFound")
    ELSE LET rows == S.database[table_name].rows IN
         IF filters # <<>>
         THEN LET r == read_rows(S.heap, rows, filters, 1) IN
              IF r.error # "ok" THEN Raise(W, r.error) ELSE Returns(W, 0, r.rows)
         ELSE Returns(W, 0, rows)

\* row[k] = v for k, v in updates.items()
dict_update(row, updates) ==
    [k \in DOMAIN row \cup DOMAIN updates |->
        IF k \in DOMAIN updates THEN updates[k] ELSE row[k]]

\* The loop of update over rows[i..]: each row is tested as it is when the
\* loop reaches it, and changed in place.
RECURSIVE update_rows(_, _, _, _, _, _)
update_rows(heap, rows, filters, updates, i, updated_rows) ==
    IF i > Len(rows) THEN [heap |-> heap, updated_rows |-> updated_rows]
    ELSE IF all_get(heap[rows[i]], filters)
    THEN update_rows([heap EXCEPT ![rows[i]] = dict_update(@, updates)],
                     rows, filters, updates, i + 1, updated_rows + 1)
    ELSE update_rows(heap, rows, filters, updates, i + 1, updated_rows)

\* update as it would be with the column check made while the rows are
\* written: the valid keys reach the matching rows before the error.
update_check_in_loop(S, table_name, filters, updates) ==
    LET W == Begin(S) IN
    IF ~meta_is_registry(S.database) THEN Raise(W, "TypeError")
    ELSE IF ~has_table(S.database["_meta"].tables, table_name)
    THEN Raise(W, "TableNotFound")
    ELSE LET columns == Range(columns_of(S.database["_meta"].tables, table_name))
             valid == [k \in DOMAIN updates \cap columns |-> updates[k]]
             r == update_rows(S.heap, S.database[table_name].rows,
                              filters, valid, 1, 0)
         IN IF DOMAIN updates \subseteq columns
            THEN Returns(_save_db([W EXCEPT !.heap = r.heap]), r.updated_rows, <<>>)
            ELSE Raise([W EXCEPT !.heap = r.heap], "InvalidColumn")

\* update as it would be without the column check.
update_unchecked(S, table_name, filters, updates) ==
    LET W == Begin(S) IN
    IF ~meta_is_registry(S.database) THEN Raise(W, "TypeError")
    ELSE IF ~has_table(S.database["_meta"].tables, table_name)
    THEN Raise(W, "TableNotFound")
    ELSE LET r == update_rows(S.heap, S.database[table_name].rows,
                              filters, updates, 1, 0)
         IN Returns(_save_db([W EXCEPT !.heap = r.heap]), r.updated_rows, <<>>)

\* update as it would be if it saved only when a row was changed.
update_save_if_changed(S, table_name, filters, updates) ==
    LET W == Begin(S) IN
    IF ~meta_is_registry(S.database) THEN Raise(W, "TypeError")
    ELSE IF ~has_table(S.database["_meta"].tables, table_name)
    THEN Raise(W, "TableNotFound")
    ELSE IF \E key \in DOMAIN updates :
               key \notin Range(columns_of(S.database["_meta"].tables, table_name))
    THEN Raise(W, "InvalidColumn")
    ELSE LET r == update_rows(S.heap, S.database[table_name].rows,
                              filters, updates, 1, 0)
         IN IF r.updated_rows = 0 THEN Returns(W, 0, <<>>)
            ELSE Returns(_save_db([W EXCEPT !.heap = r.heap]), r.updated_rows, <<>>)

update(S, table_name, filters, updates) ==
    LET W == Begin(S) IN
    IF ~meta_is_registry(S.database) THEN Raise(W, "TypeError")
    ELSE IF ~has_table(S.database["_meta"].tables, table_name)
    THEN Raise(W, "TableNotFound")
    ELSE IF \E key \in DOMAIN updates :
               key \notin Range(columns_of(S.database["_meta"].tables, table_name))
    THEN Raise(W, "InvalidColumn")
    ELSE LET r == update_rows(S.heap, S.database[table_name].rows,
                              filters, updates, 1, 0)
         IN Returns(_save_db([W EXCEPT !.heap = r.heap]), r.updated_rows, <<>>)

\* delete_rows as it would be if it stopped at the first matching row.
RECURSIVE delete_first_row(_, _, _, _)
delete_first_row(heap, rows, filters, i) ==
    IF i > Len(rows) THEN <<>>
    ELSE IF ~all_get(heap[rows[i]], filters)
    THEN <<rows[i]>> \o delete_first_row(heap, rows, filters, i + 1)
    ELSE SubSeq(rows, i + 1, Len(rows))

\* [row for row in rows if not all(row.get(k) == v ...)]
RECURSIVE delete_rows(_, _, _, _)
delete_rows(heap, rows, filters, i) ==
    IF i > Len(rows) THEN <<>>
    ELSE IF ~all_get(heap[rows[i]], filters)
    THEN <<rows[i]>> \o delete_rows(heap, rows, filters, i + 1)
    ELSE delete_rows(heap, rows, filters, i + 1)

delete(S, table_name, filters) ==
    LET W == Begin(S) IN
    IF ~meta_is_registry(S.database) THEN Raise(W, "TypeError")
    ELSE IF ~has_table(S.database["_meta"].tables, table_name)
    THEN Raise(W, "TableNotFound")
    ELSE LET original_count == Len(S.database[table_name].rows)
             kept == delete_rows(S.heap, S.database[table_name].rows, filters, 1)
             db1 == [S.database EXCEPT ![table_name] = RowsEntry(kept)]
             deleted_count == original_count - Len(kept)
         IN Returns(_save_db([W EXCEPT !.database = db1]), deleted_count, <<>>)

\* list(self.database["_meta"]["tables"].keys())
list_tables(database) ==
    [i \in 1..Len(database["_meta"].tables) |-> database["_meta"].tables[i].name]

\* self.database["_meta"]["tables"][table_name]["columns"]
get_table_schema(database, table_name) ==
    columns_of(database["_meta"].tables, table_name)

\* self.database["_meta"]["tables"]
get_database_info(database) == database["_meta"].tables

\* ------------------------------------------------------------------------
\* The store as a state machine: one action per public call.

VARIABLES
    database,       \* self.database
    heap,           \* the row dict objects self.database refers to
    file,           \* the backing file
    encryption_key, \* self.encryption_key
    last,           \* the last call: its arguments, its outcome, what it returned
    threads         \* the calls of callers that run at the same time

vars == <<database, heap, file, encryption_key, last, threads>>

\* The store as a call finds it, on a disk that works.
Store ==
    [database |-> database, heap |-> heap, file |-> file,
     encryption_key |-> encryption_key, disk |-> "ok"]

\* self.database[k] of every key in KeyOrder[1..n], one list after another.
RECURSIVE AllRows(_, _)
AllRows(db, n) ==
    IF n = 0 THEN <<>>
    ELSE AllRows(db, n - 1)
         \o (IF KeyOrder[n] \in DOMAIN db THEN db[KeyOrder[n]].rows ELSE <<>>)

TotalRows(db) == Len(AllRows(db, Len(KeyOrder)))

\* References are names of dict objects, and only their equalities matter.
\* After a call the objects are renamed 1, 2, ... in the order in which the
\* row lists first refer to them; an object no list refers to any more is
\* dropped (the caller holds no row the store has given up).
first_places(c) == { i \in 1..Len(c) : \A j \in 1..(i - 1) : c[j] # c[i] }

rank(c, ref) ==
    Cardinality({ i \in first_places(c) :
                    i <= (CHOOSE p \in first_places(c) : c[p] = ref) })

collect(r) ==
    LET c == AllRows(r.database, Len(KeyOrder)) IN
    [r EXCEPT
        !.database = [k \in DOMAIN r.database |->
            [r.database[k] EXCEPT !.rows =
                [i \in 1..Len(r.database[k].rows) |-> rank(c, r.database[k].rows[i])]]],
        !.heap = [n \in 1..Cardinality(first_places(c)) |->
            r.heap[c[CHOOSE p \in first_places(c) : rank(c, c[p]) = n]]],
        !.rows = [i \in 1..Len(r.rows) |-> rank(c, r.rows[i])]]

EmptyDict == [k \in {} |-> 0]
NoColumns == [is_list |-> FALSE, items |-> <<>>]

\* The caller is ready for its next call.
Ready ==
    [op |-> "none", table |-> "", columns |-> NoColumns, row |-> EmptyDict,
     held |-> FALSE, filters |-> <<>>, updates |-> EmptyDict, key |-> "",
     disk |-> "ok",
     outcome |-> "ok", saves |-> 0, count |-> 0, rows |-> <<>>, value |-> <<>>]

\* No caller runs beside the one of `last`.
NoThreads == <<>>

\* A call and how it ended (r).
Called(call, r) ==
    [call EXCEPT !.outcome = r.outcome, !.saves = r.saves,
                 !.count = r.count, !.rows = r.rows]

\* EncryptedDatabase(db_file, "k1") where no file exists yet.
Init ==
    /\ file = NoFile
    /\ encryption_key = "k1"
    /\ database = _load_or_initialize_db(NoFile, "k1").database
    /\ heap = <<>>
    /\ last = Ready
    /\ threads = NoThreads

\* EncryptedDatabase(db_file, key) constructed again on the same file with
\* the same key.  When the constructor raises there is no new store: the
\* caller is left with the one it had.
Reopen ==
    /\ last = Ready
    /\ \E s \in {_load_or_initialize_db(file, encryption_key)} :
        /\ database' = IF s.outcome = "ok" THEN s.database ELSE database
        /\ heap' = IF s.outcome = "ok" THEN s.heap ELSE heap
        /\ file' = file
        /\ last' = [Ready EXCEPT !.op = "init", !.key = encryption_key,
                                 !.outcome = s.outcome]
    /\ UNCHANGED <<encryption_key, threads>>

DefineTable ==
    /\ last = Ready
    /\ \E args \in DefineArgs :
        \E r \in {collect(define_table(Store, args[1], args[2]))} :
            /\ database' = r.database
            /\ heap' = r.heap
            /\ file' = r.file
            /\ last' = Called([Ready EXCEPT !.op = "define_table", !.table = args[1],
                                            !.columns = args[2]], r)
    /\ UNCHANGED <<encryption_key, threads>>

\* insert with a dict the caller has just built.
InsertNew ==
    /\ last = Ready
    /\ \E table_name \in RowTables, row \in Dicts :
        \E r \in {collect(insert([Store EXCEPT !.heap = Append(heap, row)],
                                 table_name, Len(heap) + 1))} :
            /\ r.outcome = "ok" => TotalRows(database) < MaxRows
            /\ database' = r.database
            /\ heap' = r.heap
            /\ file' = r.file
            /\ last' = Called([Ready EXCEPT !.op = "insert", !.table = table_name,
                                            !.row = row], r)
    /\ UNCHANGED <<encryption_key, threads>>

\* insert with a dict object the store already holds (the caller kept it,
\* or got it from read).
InsertHeld ==
    /\ last = Ready
    /\ \E table_name \in RowTables, ref \in DOMAIN heap :
        \E r \in {collect(insert(Store, table_name, ref))} :
            /\ r.outcome = "ok" => TotalRows(database) < MaxRows
            /\ database' = r.database
            /\ heap' = r.heap
            /\ file' = r.file
            /\ last' = Called([Ready EXCEPT !.op = "insert", !.table = table_name,
                                            !.row = heap[ref], !.held = TRUE], r)
    /\ UNCHANGED <<encryption_key, threads>>

Read ==
    /\ last = Ready
    /\ \E table_name \in RowTables, filters \in Filters :
        \E r \in {collect(read(Store, table_name, filters))} :
            /\ database' = r.database
            /\ heap' = r.heap
            /\ file' = r.file
            /\ last' = Called([Ready EXCEPT !.op = "read", !.table = table_name,
                                            !.filters = filters], r)
    /\ UNCHANGED <<encryption_key, threads>>

Update ==
    /\ last = Ready
    /\ \E table_name \in RowTables, filters \in Filters, updates \in Updates :
        \E r \in {collect(update(Store, table_name, filters, updates))} :
            /\ database' = r.database
            /\ heap' = r.heap
            /\ file' = r.file
            /\ last' = Called([Ready EXCEPT !.op = "update", !.table = table_name,
                                            !.filters = filters, !.updates = updates], r)
    /\ UNCHANGED <<encryption_key, threads>>

Delete ==
    /\ last = Ready
    /\ \E table_name \in RowTables, filters \in Filters :
        \E r \in {collect(delete(Store, table_name, filters))} :
            /\ database' = r.database
            /\ heap' = r.heap
            /\ file' = r.file
            /\ last' = Called([Ready EXCEPT !.op = "delete", !.table = table_name,
                                            !.filters = filters], r)
    /\ UNCHANGED <<encryption_key, threads>>

\* The caller has taken the result of its call; calls come one at a time.
Return ==
    /\ last # Ready
    /\ last' = Ready
    /\ UNCHANGED <<database, heap, file, encryption_key, threads>>

\* The calls that only look at the registry or the key.
ListTables ==
    /\ last = Ready
    /\ last' = IF meta_is_registry(database)
               THEN [Ready EXCEPT !.op = "list_tables", !.value = list_tables(database)]
               ELSE [Ready EXCEPT !.op = "list_tables", !.outcome = "TypeError"]
    /\ UNCHANGED <<database, heap, file, encryption_key, threads>>

GetTableSchema ==
    /\ last = Ready
    /\ \E table_name \in RowTables :
        last' = IF ~meta_is_registry(database)
                THEN [Ready EXCEPT !.op = "get_table_schema", !.table = table_name,
                                   !.outcome = "TypeError"]
                ELSE IF ~has_table(database["_meta"].tables, table_name)
                THEN [Ready EXCEPT !.op = "get_table_schema", !.table = table_name,
                                   !.outcome = "TableNotFound"]
                ELSE [Ready EXCEPT !.op = "get_table_schema", !.table = table_name,
                                   !.value = get_table_schema(database, table_name)]
    /\ UNCHANGED <<database, heap, file, encryption_key, threads>>

GetDatabaseInfo ==
    /\ last = Ready
    /\ last' = IF meta_is_registry(database)
               THEN [Ready EXCEPT !.op = "get_database_info",
                                  !.value = get_database_info(database)]
               ELSE [Ready EXCEPT !.op = "get_database_info", !.outcome = "TypeError"]
    /\ UNCHANGED <<database, heap, file, encryption_key, threads>>

GetEncryptionKey ==
    /\ last = Ready
    /\ last' = [Ready EXCEPT !.op = "get_encryption_key", !.key = encryption_key]
    /\ UNCHANGED <<database, heap, file, encryption_key, threads>>

Next ==
    \/ Reopen
    \/ DefineTable
    \/ InsertNew
    \/ InsertHeld
    \/ Read
    \/ Update
    \/ Delete
    \/ ListTables
    \/ GetTableSchema
    \/ GetDatabaseInfo
    \/ GetEncryptionKey
    \/ Return

Spec == Init /\ [][Next]_vars

\* ------------------------------------------------------------------------
\* A caller that changes what read has returned to it: the list `result`
\* (last.rows) and the dicts in it.

\* result.append(row)
CallerAppends ==
    /\ last.op = "read"
    /\ last.outcome = "ok"
    /\ returns_table_list(last.filters) => TotalRows(database) < MaxRows
    /\ \E row \in {[k \in {"a"} |-> 1]} :
        \E r \in {collect(
                  [database |->
                      IF returns_table_list(last.filters)
                      THEN [database EXCEPT ![last.table] =
                               RowsEntry(Append(@.rows, Len(heap) + 1))]
                      ELSE database,
                   heap |-> Append(heap, row), rows |-> <<>>])} :
            /\ database' = r.database
            /\ heap' = r.heap
    /\ last' = [last EXCEPT !.op = "result.append", !.rows = <<>>]
    /\ UNCHANGED <<file, encryption_key, threads>>

\* del result[i]
CallerRemoves ==
    /\ last.op = "read"
    /\ last.outcome = "ok"
    /\ \E i \in 1..Len(last.rows) :
        \E r \in {collect(
                  [database |->
                      IF returns_table_list(last.filters)
                      THEN [database EXCEPT ![last.table] =
                               RowsEntry(SubSeq(@.rows, 1, i - 1)
                                         \o SubSeq(@.rows, i + 1, Len(@.rows)))]
                      ELSE database,
                   heap |-> heap, rows |-> <<>>])} :
            /\ database' = r.database
            /\ heap' = r.heap
    /\ last' = [last EXCEPT !.op = "del result[i]", !.rows = <<>>]
    /\ UNCHANGED <<file, encryption_key, threads>>

\* result[i][k] = 2
CallerEdits ==
    /\ last.op = "read"
    /\ last.outcome = "ok"
    /\ \E i \in 1..Len(last.rows), k \in Keys :
        /\ heap' = [heap EXCEPT ![last.rows[i]] = dict_set(@, k, 2)]
        /\ database' = database
    /\ last' = [last EXCEPT !.op = "result[i][k] = v", !.rows = <<>>]
    /\ UNCHANGED <<file, encryption_key, threads>>

\* The calls that fill the tables and read them, with such a caller.
NextCaller ==
    \/ DefineTable
    \/ InsertNew
    \/ Read
    \/ Return
    \/ CallerAppends
    \/ CallerRemoves
    \/ CallerEdits

SpecCaller == Init /\ [][NextCaller]_vars

\* ------------------------------------------------------------------------
\* Stores constructed with any key, on a file that may hold anything.

\* EncryptedDatabase(db_file, key).  When the constructor raises there is
\* no new store: the caller is left with the one it had.
Construct ==
    /\ last = Ready
    /\ \E key \in EncryptionKeys :
        \E s \in {_load_or_initialize_db(file, key)} :
            /\ database' = IF s.outcome = "ok" THEN s.database ELSE database
            /\ heap' = IF s.outcome = "ok" THEN s.heap ELSE heap
            /\ encryption_key' = IF s.outcome = "ok" THEN key ELSE encryption_key
            /\ last' = [Ready EXCEPT !.op = "init", !.key = key,
                                     !.outcome = s.outcome]
    /\ UNCHANGED <<file, threads>>

\* The file comes to hold bytes that are no token, or a token of text that
\* is no JSON (the disk, or another program writing to db_file).
FileDamaged ==
    /\ last = Ready
    /\ \E data \in {NoToken} \cup {encrypt(key, NotJson) : key \in EncryptionKeys} :
        file' = [exists |-> TRUE, data |-> data]
    /\ UNCHANGED <<database, heap, encryption_key, last, threads>>

NextLoad ==
    \/ DefineTable
    \/ InsertNew
    \/ Return
    \/ Construct
    \/ FileDamaged

SpecLoad == Init /\ [][NextLoad]_vars

\* ------------------------------------------------------------------------
\* Calls made while the disk refuses the write of _save_db.

\* The call `call`, made on the store S.
Replay(S, call) ==
    CASE call.op = "define_table" -> define_table(S, call.table, call.columns)
      [] call.op = "insert" ->
            insert([S EXCEPT !.heap = Append(S.heap, call.row)], call.table,
                   Len(S.heap) + 1)
      [] call.op = "read" -> read(S, call.table, call.filters)
      [] call.op = "update" -> update(S, call.table, call.filters, call.updates)
      [] call.op = "delete" -> delete(S, call.table, call.filters)

\* The define_table, insert, update and delete calls, with a new dict for
\* insert.
MutatingCalls ==
    { [Ready EXCEPT !.op = "define_table", !.table = a[1], !.columns = a[2]] :
        a \in DefineArgs }
    \cup { [Ready EXCEPT !.op = "insert", !.table = a[1], !.row = a[2]] :
             a \in RowTables \X Dicts }
    \cup { [Ready EXCEPT !.op = "update", !.table = a[1], !.filters = a[2],
                         !.updates = a[3]] :
             a \in RowTables \X Filters \X Updates }
    \cup { [Ready EXCEPT !.op = "delete", !.table = a[1], !.filters = a[2]] :
             a \in RowTables \X Filters }

\* The calls made on the disk that may fail: those on table "u" with column
\* "a", with no filter or the filter {"a": 1}.
IOCalls ==
    { c \in MutatingCalls :
        /\ c.table = "u"
        /\ DOMAIN c.row \subseteq {"a"}
        /\ DOMAIN c.updates \subseteq {"a"}
        /\ c.filters \in {<<>>, << <<"a", 1>> >>} }

\* One call, on a disk that works or fails.
CallOnDisk ==
    /\ last = Ready
    /\ \E call \in IOCalls, disk \in {"ok"} \cup DiskFaults :
        \E r \in {collect(Replay([Store EXCEPT !.disk = disk], call))} :
            /\ call.op = "insert" => TotalRows(database) < MaxRows
            /\ database' = r.database
            /\ heap' = r.heap
            /\ file' = r.file
            /\ last' = Called([call EXCEPT !.disk = disk], r)
    /\ UNCHANGED <<encryption_key, threads>>

NextIO ==
    \/ CallOnDisk
    \/ Return

SpecIO == Init /\ [][NextIO]_vars

\* ------------------------------------------------------------------------
\* Two callers (threads) that each make one call on the same store at the
\* same time.  The interpreter runs one thread at a time and may switch
\* between any two statements; a step below is a run of statements with no
\* switch inside.  There is no lock in the class.

Threads == {1, 2}

\* The calls of the threads: insert, update and delete on table "u".
ThreadCalls == { c \in IOCalls : c.op \in {"insert", "update", "delete"} }

\* A thread: where it is in its call (pc) and the locals of the call.
Idle ==
    [pc |-> "idle", call |-> Ready, original_count |-> 0, kept |-> <<>>,
     encrypted_data |-> NoToken]

\* The store after define_table("u", ["a"]) and insert("u", {"a": 1}).
StoreOfThreads ==
    LET S0 == [database |-> _load_or_initialize_db(NoFile, "k1").database,
               heap |-> <<>>, file |-> NoFile, encryption_key |-> "k1",
               disk |-> "ok"]
        r1 == define_table(S0, "u", [is_list |-> TRUE, items |-> <<"a">>])
        S1 == [S0 EXCEPT !.database = r1.database, !.file = r1.file]
        r2 == insert([S1 EXCEPT !.heap = <<[k \in {"a"} |-> 1]>>], "u", 1)
    IN [S1 EXCEPT !.database = r2.database, !.heap = r2.heap, !.file = r2.file]

InitThreads ==
    /\ database = StoreOfThreads.database
    /\ heap = StoreOfThreads.heap
    /\ file = StoreOfThreads.file
    /\ encryption_key = "k1"
    /\ last = Ready
    /\ threads = [th \in Threads |-> Idle]

\* The thread enters its method.
ThreadCall ==
    \E th \in Threads, call \in ThreadCalls :
        /\ threads[th].pc = "idle"
        /\ threads' = [threads EXCEPT ![th] = [@ EXCEPT !.pc = call.op, !.call = call]]
        /\ UNCHANGED <<database, heap, file, encryption_key, last>>

\* insert up to its save (lines 45-50) and update up to its save (lines
\* 62-73): the checks, then the change of self.database.
ThreadMutate ==
    \E th \in Threads :
        /\ threads[th].pc \in {"insert", "update"}
        /\ \E r \in {Replay(Store, threads[th].call)} :
            /\ database' = r.database
            /\ heap' = r.heap
            /\ threads' = [threads EXCEPT ![th] =
                   [@ EXCEPT !.pc = IF r.outcome = "ok" THEN "serialize" ELSE "done",
                             !.call = Called(@, [r EXCEPT !.saves = 0])]]
        /\ UNCHANGED <<file, encryption_key, last>>

\* delete, lines 78-84 up to the assignment: original_count and the list
\* the comprehension builds from the rows it finds.
ThreadDeleteFilter ==
    \E th \in Threads :
        /\ threads[th].pc = "delete"
        /\ LET c == threads[th].call IN
           threads' = [threads EXCEPT ![th] =
               [@ EXCEPT !.pc = "assign",
                         !.original_count = Len(database[c.table].rows),
                         !.kept = delete_rows(heap, database[c.table].rows,
                                              c.filters, 1)]]
        /\ UNCHANGED <<database, heap, file, encryption_key, last>>

\* delete, the assignment of line 81 and deleted_count (line 85).
ThreadDeleteAssign ==
    \E th \in Threads :
        /\ threads[th].pc = "assign"
        /\ LET c == threads[th].call IN
           /\ database' = [database EXCEPT ![c.table] = RowsEntry(threads[th].kept)]
           /\ threads' = [threads EXCEPT ![th] =
                  [@ EXCEPT !.pc = "serialize",
                            !.call = [@ EXCEPT !.count =
                               threads[th].original_count - Len(threads[th].kept)]]]
        /\ UNCHANGED <<heap, file, encryption_key, last>>

\* _save_db, line 29: the snapshot as it is now, serialized and encrypted.
ThreadSerialize ==
    \E th \in Threads :
        /\ threads[th].pc = "serialize"
        /\ threads' = [threads EXCEPT ![th] =
               [@ EXCEPT !.pc = "write",
                         !.encrypted_data =
                            encrypt(encryption_key, JsonText(json_dumps(database, heap)))]]
        /\ UNCHANGED <<database, heap, file, encryption_key, last>>

\* _save_db, lines 30-31: the file replaced by encrypted_data; the call
\* returns.
ThreadWrite ==
    \E th \in Threads :
        /\ threads[th].pc = "write"
        /\ file' = [exists |-> TRUE, data |-> threads[th].encrypted_data]
        /\ threads' = [threads EXCEPT ![th] =
               [@ EXCEPT !.pc = "done", !.call = [@ EXCEPT !.saves = 1]]]
        /\ UNCHANGED <<database, heap, encryption_key, last>>

NextThreads ==
    \/ ThreadCall
    \/ ThreadMutate
    \/ ThreadDeleteFilter
    \/ ThreadDeleteAssign
    \/ ThreadSerialize
    \/ ThreadWrite

SpecThreads == InitThreads /\ [][NextThreads]_vars


\* ------------------------------------------------------------------------
\* What the claims speak of.

\* The rows of table t, by value.
RowsOf(db, h, t) == [i \in 1..Len(db[t].rows) |-> h[db[t].rows[i]]]

\* t is a table of the registry the store holds.
Registered(db, t) == meta_is_registry(db) /\ has_table(db["_meta"].tables, t)

\* A record matches `filters`: every filter key maps to an equal value.
Matches(row, filters) ==
    \A j \in 1..Len(filters) :
        filters[j][1] \in DOMAIN row /\ row[filters[j][1]] = filters[j][2]

\* The subsequence of the records of s that satisfy Test.
RECURSIVE Select(_, _, _)
Select(s, filters, keep_matching) ==
    IF s = <<>> THEN <<>>
    ELSE (IF Matches(Head(s), filters) = keep_matching THEN <<Head(s)>> ELSE <<>>)
         \o Select(Tail(s), filters, keep_matching)

ValidationErrors ==
    {"TableExists", "InvalidSchema", "TableNotFound", "SchemaMismatch", "InvalidColumn"}

\* C1: a define_table, insert, update or delete that fails validation leaves
\* the in-memory snapshot and the backing file as they were and performs no
\* save; an update with one invalid key among valid ones changes no row.
C1_FailedValidationChangesNothing ==
    [][ last'.outcome \in ValidationErrors =>
            /\ database' = database
            /\ heap' = heap
            /\ file' = file
            /\ last'.saves = 0 ]_vars

\* C1's case: an update was rejected for a column outside the schema while
\* its `updates` also named a column of the schema and a row matched.
C1_Witness ==
    /\ last.op = "update"
    /\ last.outcome = "InvalidColumn"
    /\ \E k \in DOMAIN last.updates :
          k \in Range(columns_of(database["_meta"].tables, last.table))
    /\ \E i \in 1..Len(database[last.table].rows) :
          Matches(heap[database[last.table].rows[i]], last.filters)

\* C2: the names that have a row sequence are exactly the names of the
\* registry, in every reachable state.
C2_RowsIffRegistered ==
    /\ meta_is_registry(database)
    /\ { k \in DOMAIN database : database[k].kind = "rows" }
         = { database["_meta"].tables[i].name : i \in 1..Len(database["_meta"].tables) }


\* The store a second EncryptedDatabase builds from the backing file.
Reloaded ==
    [database |-> _load_or_initialize_db(file, encryption_key).database,
     heap |-> _load_or_initialize_db(file, encryption_key).heap,
     file |-> file, encryption_key |-> encryption_key, disk |-> "ok"]

\* C3: a second store built on the same file sees the tables, schemas and
\* rows the first store holds, and the next call gives the same result and
\* the same table contents on both.
C3_ReloadedStoreEquivalent ==
    [][ (file.exists /\ last'.op \in {"define_table", "insert", "read", "update", "delete"}) =>
            LET r == Replay(Reloaded, last') IN
            /\ json_dumps(Reloaded.database, Reloaded.heap) = json_dumps(database, heap)
            /\ r.outcome = last'.outcome
            /\ r.count = last'.count
            /\ [i \in 1..Len(r.rows) |-> r.heap[r.rows[i]]]
                 = [i \in 1..Len(last'.rows) |-> heap'[last'.rows[i]]]
            /\ json_dumps(r.database, r.heap) = json_dumps(database', heap') ]_vars

\* C4: insert on a defined table succeeds exactly when the record's key set
\* is the table's column set; then the row sequence is the previous one with
\* the record appended (an equal record may be there already), otherwise the
\* row sequence is unchanged.
C4_InsertStrict ==
    [][ (last'.op = "insert" /\ Registered(database, last'.table)) =>
            LET t == last'.table
                columns == Range(columns_of(database["_meta"].tables, t)) IN
            /\ (last'.outcome = "ok") <=> (DOMAIN last'.row = columns)
            /\ (last'.outcome = "ok") =>
                   RowsOf(database', heap', t) = Append(RowsOf(database, heap, t), last'.row)
            /\ (last'.outcome # "ok") =>
                   /\ last'.outcome = "SchemaMismatch"
                   /\ database'[t] = database[t]
                   /\ RowsOf(database', heap', t) = RowsOf(database, heap, t) ]_vars

\* C4's case: an insert of a newly built record succeeded on a table that
\* already held an equal record.
C4_Witness ==
    /\ last.op = "insert"
    /\ last.outcome = "ok"
    /\ ~last.held
    /\ \E i \in 1..Len(database[last.table].rows) :
          /\ i < Len(database[last.table].rows)
          /\ heap[database[last.table].rows[i]] = last.row

\* C5: every record stored in a table has exactly the table's columns as
\* its keys, in every reachable state.
C5_RowKeysAreColumns ==
    meta_is_registry(database) =>
        \A i \in 1..Len(database["_meta"].tables) :
            LET t == database["_meta"].tables[i] IN
            \A j \in 1..Len(database[t.name].rows) :
                DOMAIN heap[database[t.name].rows[j]] = Range(t.columns)

\* C5's case: an update has written a column of a stored record.
C5_Witness ==
    /\ last.op = "update"
    /\ last.outcome = "ok"
    /\ last.count >= 1
    /\ DOMAIN last.updates # {}

\* C6: after a successful define_table(t, cols), get_table_schema(t) is cols
\* and list_tables holds t once; define_table on a name already defined
\* raises the table-exists error and changes neither schema, rows nor
\* list_tables.
C6_DefineThenSchema ==
    [][ last'.op = "define_table" =>
            /\ last'.outcome = "ok" =>
                  /\ meta_is_registry(database')
                  /\ has_table(database'["_meta"].tables, last'.table)
                  /\ get_table_schema(database', last'.table) = last'.columns.items
                  /\ Cardinality({ i \in 1..Len(list_tables(database')) :
                                     list_tables(database')[i] = last'.table }) = 1
            /\ Registered(database, last'.table) =>
                  /\ last'.outcome = "TableExists"
                  /\ database' = database
                  /\ heap' = heap ]_vars


\* A record with every (key, value) of `updates` set and its other keys kept.
WithUpdates(row, updates) ==
    [k \in DOMAIN row \cup DOMAIN updates |->
        IF k \in DOMAIN updates THEN updates[k] ELSE row[k]]

\* How many records of s match `filters`.
MatchCount(s, filters) ==
    Cardinality({ i \in 1..Len(s) : Matches(s[i], filters) })

\* C7: read on a table of the registry returns, for a non-empty filter, the
\* stored records in which every filter key maps to an equal value, in
\* insertion order, and for an empty filter all the records of the table.
C7_ReadReturnsMatches ==
    (last.op = "read" /\ Registered(database, last.table)) =>
        /\ last.outcome = "ok"
        /\ [i \in 1..Len(last.rows) |-> heap[last.rows[i]]]
             = IF last.filters = <<>>
               THEN RowsOf(database, heap, last.table)
               ELSE Select(RowsOf(database, heap, last.table), last.filters, TRUE)

\* C8: a successful update returns the number of records that matched the
\* filters before the call; each of them then carries `updates` with its
\* other keys unchanged, every other record is unchanged, and the table
\* keeps the number and the order of its records.
C8_UpdateCountsMatches ==
    [][ (last'.op = "update" /\ last'.outcome = "ok") =>
            LET before == RowsOf(database, heap, last'.table)
                after == RowsOf(database', heap', last'.table) IN
            /\ last'.count = MatchCount(before, last'.filters)
            /\ Len(after) = Len(before)
            /\ \A i \in 1..Len(before) :
                  after[i] = IF Matches(before[i], last'.filters)
                             THEN WithUpdates(before[i], last'.updates)
                             ELSE before[i] ]_vars

C10_EmptyFilterMatchesAll ==
    [][ (last'.op \in {"update", "delete"} /\ last'.outcome = "ok"
         /\ last'.filters = <<>>) =>
            LET before == RowsOf(database, heap, last'.table)
                after == RowsOf(database', heap', last'.table) IN
            /\ last'.count = Len(before)
            /\ last'.op = "update" =>
                  /\ Len(after) = Len(before)
                  /\ \A i \in 1..Len(after) :
                        after[i] = WithUpdates(before[i], last'.updates)
            /\ last'.op = "delete" => after = <<>> ]_vars

\* C10's case: an update with an empty filter has written a column of the
\* two rows of its table.
C10_Witness ==
    /\ last.op = "update"
    /\ last.outcome = "ok"
    /\ last.filters = <<>>
    /\ DOMAIN last.updates # {}
    /\ last.count = 2

\* `columns` is empty, holds an entry that is no string, or holds the same
\* column name twice.
EmptyOrBadEntries(columns) ==
    \/ columns.items = <<>>
    \/ \E i \in 1..Len(columns.items) : ~isinstance_str(columns.items[i])
    \/ \E i, j \in 1..Len(columns.items) : i < j /\ columns.items[i] = columns.items[j]

\* C11: define_table of a new name whose `columns` is empty, holds a
\* non-string entry or repeats a column name raises the invalid-schema
\* error, registers nothing and saves nothing.
C11_BadColumnsRejected ==
    [][ (/\ last'.op = "define_table"
         /\ meta_is_registry(database)
         /\ ~has_table(database["_meta"].tables, last'.table)
         /\ EmptyOrBadEntries(last'.columns)) =>
            /\ last'.outcome = "InvalidSchema"
            /\ database' = database
            /\ file' = file
            /\ last'.saves = 0 ]_vars

\* C12: in every reachable state the "_meta" entry of the snapshot is the
\* registry, and the registry holds no table named "_meta".
C12_MetaReserved ==
    /\ database["_meta"].kind = "meta"
    /\ \A i \in 1..Len(database["_meta"].tables) :
          database["_meta"].tables[i].name # "_meta"

\* C13: read never raises for a filter key a record does not carry: when a
\* record of the table lacks a filter key the call still returns, and it
\* returns no record that lacks one.
C13_ReadMissingKeyIsNoMatch ==
    (/\ last.op = "read"
     /\ Registered(database, last.table)
     /\ \E i \in 1..Len(database[last.table].rows), j \in 1..Len(last.filters) :
           last.filters[j][1] \notin DOMAIN heap[database[last.table].rows[i]]) =>
        /\ last.outcome = "ok"
        /\ \A i \in 1..Len(last.rows), j \in 1..Len(last.filters) :
              last.filters[j][1] \in DOMAIN heap[last.rows[i]]

\* C16: no step removes a table from the registry or changes its columns; a
\* successful define_table adds its table after the others and no other
\* step adds one; list_tables gives the registry's names in that order,
\* each once.
C16_TablesPersistInOrder ==
    [][ meta_is_registry(database) =>
            LET old == database["_meta"].tables
                new == database'["_meta"].tables IN
            /\ meta_is_registry(database')
            /\ new = IF last'.op = "define_table" /\ last'.outcome = "ok"
                     THEN Append(old, [name |-> last'.table,
                                       columns |-> last'.columns.items])
                     ELSE old
            /\ list_tables(database') = [i \in 1..Len(new) |-> new[i].name]
            /\ \A i, j \in 1..Len(new) : new[i].name = new[j].name => i = j ]_vars

\* C20: insert, update and delete on one table leave the row sequence of
\* every other table, by value, and the whole registry as they were.
C20_OtherTablesUnchanged ==
    [][ last'.op \in {"insert", "update", "delete"} =>
            /\ database'["_meta"] = database["_meta"]
            /\ \A t \in (DOMAIN database \ {"_meta", last'.table}) :
                  /\ t \in DOMAIN database'
                  /\ RowsOf(database', heap', t) = RowsOf(database, heap, t) ]_vars

MutatingOps == {"define_table", "insert", "update", "delete"}
ReadingOps ==
    {"read", "list_tables", "get_table_schema", "get_database_info",
     "get_encryption_key"}

\* C17: a define_table, insert, update or delete that passes validation
\* writes the file exactly once, after its change to the snapshot (the file
\* then holds the snapshot as the call left it), also when an update or a
\* delete matches no row; every other call, and every call that raises,
\* writes nothing and leaves snapshot and file as they were.
C17_OneSavePerMutation ==
    [][ last'.op \in MutatingOps \cup ReadingOps =>
            IF last'.op \in MutatingOps /\ last'.outcome = "ok"
            THEN /\ last'.saves = 1
                 /\ file' = [exists |-> TRUE,
                             data |-> encrypt(encryption_key,
                                         JsonText(json_dumps(database', heap')))]
            ELSE /\ last'.saves = 0
                 /\ file' = file
                 /\ database' = database
                 /\ heap' = heap ]_vars

\* C17's case: an update that matched none of the rows of its table was
\* saved.
C17_Witness ==
    /\ last.op = "update"
    /\ last.outcome = "ok"
    /\ last.count = 0
    /\ last.saves = 1
    /\ Len(database[last.table].rows) >= 1

CallerOps == {"result.append", "del result[i]", "result[i][k] = v"}

\* C14: when the caller appends to the sequence read returned, removes
\* from it or edits a record of it, the rows the store holds for that table
\* stay as they were, and stay equal to the rows the backing file holds.
C14_ReadResultIsNoHandle ==
    [][ last'.op \in CallerOps =>
            /\ RowsOf(database', heap', last'.table)
                 = RowsOf(database, heap, last'.table)
            /\ json_dumps(database', heap')[last'.table]
                 = decrypt(encryption_key, file'.data).doc[last'.table] ]_vars

\* The file f exists and its contents are no token of `key`, or a token of
\* `key` whose text is no JSON.
Unreadable(f, key) ==
    f.exists /\ (~f.data.token \/ f.data.key # key \/ ~f.data.text.json)

EmptyRegistry == [k \in {"_meta"} |-> MetaEntry(<<>>)]

\* C15: constructing a store never changes the file; on an existing file
\* that the key does not decrypt, or whose text does not deserialize, the
\* constructor raises and gives no store; it gives a store with an empty
\* registry only when the file does not exist.
C15_LoadFailsLoudly ==
    [][ last'.op = "init" =>
            /\ file' = file
            /\ Unreadable(file, last'.key) =>
                  /\ last'.outcome \in {"InvalidToken", "JSONDecodeError"}
                  /\ database' = database
                  /\ heap' = heap
                  /\ encryption_key' = encryption_key
            /\ (last'.outcome = "ok" /\ database' = EmptyRegistry) => ~file.exists ]_vars

\* C15's case: a constructor given another key than the one that wrote the
\* file has raised, and the store that wrote the file holds a row.
C15_Witness ==
    /\ last.op = "init"
    /\ last.outcome = "InvalidToken"
    /\ file.exists
    /\ file.data.token
    /\ file.data.key # last.key
    /\ TotalRows(database) >= 1

\* The file holds the snapshot (db, h), written with the store's key.
InSync(f, db, h) ==
    f = [exists |-> TRUE,
         data |-> encrypt(encryption_key, JsonText(json_dumps(db, h)))]

\* C18: when the write of the save fails in a call that passed validation,
\* the call raises the I/O error, the snapshot in memory is the one the
\* call would have left on a working disk (nothing is rolled back) and
\* the file does not hold it: a file that held the snapshot before no
\* longer holds the one in memory if the call changed it.  The next
\* mutating call that succeeds leaves the file holding the snapshot.
C18_FailedSaveKeepsMutation ==
    [][ /\ (last'.disk \in DiskFaults /\ Replay(Store, last').outcome = "ok") =>
              LET done == collect(Replay(Store, last')) IN
              /\ last'.outcome = "OSError"
              /\ last'.saves = 0
              /\ database' = done.database
              /\ heap' = done.heap
              /\ file' \in {file, [exists |-> TRUE, data |-> NoToken]}
              /\ (/\ InSync(file, database, heap)
                  /\ json_dumps(database', heap') # json_dumps(database, heap)) =>
                    ~InSync(file', database', heap')
        /\ (last'.op \in MutatingOps /\ last'.outcome = "ok") =>
              InSync(file', database', heap') ]_vars

\* C18's case: the save of an insert failed; the row is in the table in
\* memory and the file still holds the table without it.
C18_Witness ==
    /\ last.op = "insert"
    /\ last.outcome = "OSError"
    /\ Len(database[last.table].rows) = 2
    /\ file.exists
    /\ file.data.token
    /\ Len(file.data.text.doc[last.table].rows) = 1

\* The snapshot, by value, after the calls c1 and then c2, one after the
\* other, on the store the threads start from.
OneAfterTheOther(c1, c2) ==
    LET r1 == Replay(StoreOfThreads, c1)
        S1 == [StoreOfThreads EXCEPT !.database = r1.database, !.heap = r1.heap,
                                     !.file = r1.file]
        r2 == Replay(S1, c2)
    IN json_dumps(r2.database, r2.heap)

\* C19: when both threads have returned, the snapshot in memory holds the
\* effect of both calls (it is what the two calls give one after the other,
\* in one order or the other) and the file holds exactly that snapshot.
C19_NoLostUpdate ==
    (\A th \in Threads : threads[th].pc = "done") =>
        /\ json_dumps(database, heap)
             \in { OneAfterTheOther(threads[1].call, threads[2].call),
                   OneAfterTheOther(threads[2].call, threads[1].call) }
        /\ InSync(file, database, heap)

====
